---- MODULE Spec2Model ----
(***************************************************************************)
(* Model of convert.go of go-bindata: Translate's asset discovery loop,    *)
(* findFiles (the recursive tree walker) and safeFunctionName (the         *)
(* identifier sanitizer).                                                  *)
(*                                                                         *)
(* Strings are sequences of one-character strings, so that the string      *)
(* operations of the source (HasPrefix, slicing, byte comparison, regexp   *)
(* matching, path cleaning) are computed character by character.           *)
(* Paths follow the Unix build of path/filepath (separator '/').           *)
(*                                                                         *)
(* Not modelled: c.validate() (taken to succeed) and the writers called    *)
(* after the discovery loop (writeDebug, writeRelease, writeTOC, ...),     *)
(* which only read toc.  The filesystem does not change during a run, so   *)
(* Readdir and Readlink of an entry just listed do not fail; Stat fails    *)
(* on a missing target or too many symlinks, Open on an unreadable         *)
(* directory.                                                              *)
(***************************************************************************)
EXTENDS Integers, Sequences, FiniteSets, TLC

(***************************************************************************)
(* Bounds of the model.                                                    *)
(***************************************************************************)
\* longest logical name handed to safeFunctionName in SpecNames
MaxNameLen == 2
\* number of safeFunctionName calls on one knownFuncs map in SpecNames
MaxCalls == 3
\* symlinks the operating system follows in one path resolution before ELOOP
MaxSymlinks == 2

(***************************************************************************)
(* Characters.                                                             *)
(***************************************************************************)
LowerLetters == <<"a","b","c","d","e","f","g","h","i","j","k","l","m",
                  "n","o","p","q","r","s","t","u","v","w","x","y","z">>
UpperLetters == <<"A","B","C","D","E","F","G","H","I","J","K","L","M",
                  "N","O","P","Q","R","S","T","U","V","W","X","Y","Z">>
Digits == <<"0","1","2","3","4","5","6","7","8","9">>

\* the characters of the model in ascending byte value
ByteOrder == <<"-", ".", "/">> \o Digits \o UpperLetters \o <<"_">> \o LowerLetters

Range(s) == { s[i] : i \in 1..Len(s) }
IndexOf(s, c) == CHOOSE i \in 1..Len(s) : s[i] = c
Ord(c) == IndexOf(ByteOrder, c)

LowerSet == Range(LowerLetters)
UpperSet == Range(UpperLetters)
DigitSet == Range(Digits)

\* strings.ToLower / strings.ToUpper on one byte
ToLower(c) == IF c \in UpperSet THEN LowerLetters[IndexOf(UpperLetters, c)] ELSE c
ToUpper(c) == IF c \in LowerSet THEN UpperLetters[IndexOf(LowerLetters, c)] ELSE c

\* unicode.IsDigit on one byte
IsDigit(c) == c \in DigitSet
IsLetter(c) == c \in LowerSet \/ c \in UpperSet

\* regFuncName = `[^a-zA-Z0-9_]` matched against one byte
regFuncName(c) == ~(IsLetter(c) \/ IsDigit(c) \/ c = "_")

LowerString(s) == [i \in 1..Len(s) |-> ToLower(s[i])]

\* fmt.Sprintf("%d", n) for n >= 0
RECURSIVE Itoa(_)
Itoa(n) == IF n < 10 THEN <<Digits[n + 1]>> ELSE Itoa(n \div 10) \o <<Digits[(n % 10) + 1]>>

(***************************************************************************)
(* safeFunctionName.                                                       *)
(***************************************************************************)
\* the scan loop: an invalid byte is dropped and capitalizes the next valid one
RECURSIVE ScanBytes(_, _, _, _)
ScanBytes(inBytes, i, toUpper, outBytes) ==
    IF i > Len(inBytes) THEN outBytes
    ELSE IF regFuncName(inBytes[i]) THEN ScanBytes(inBytes, i + 1, TRUE, outBytes)
    ELSE IF toUpper THEN ScanBytes(inBytes, i + 1, FALSE, Append(outBytes, ToUpper(inBytes[i])))
    ELSE ScanBytes(inBytes, i + 1, FALSE, Append(outBytes, inBytes[i]))

\* "Identifier can't start with a digit."  Only called on a non-empty string.
DigitPrefix(name) == IF IsDigit(name[1]) THEN <<"_">> \o name ELSE name

\* the counter stored for a base seen for the first time
FirstCounter == 2

\* the lookup in knownFuncs: the identifier returned and the map afterwards
\* (DisambiguateMutant forgets to advance the stored counter)
DisambiguateMutant(name, known) ==
    IF name \in DOMAIN known
    THEN [name |-> name \o Itoa(known[name]), knownFuncs |-> known]
    ELSE [name |-> name,
          knownFuncs |-> [k \in DOMAIN known \cup {name} |->
                             IF k = name THEN FirstCounter ELSE known[k]]]
Disambiguate(name, known) ==
    IF name \in DOMAIN known
    THEN [name |-> name \o Itoa(known[name]),
          knownFuncs |-> [known EXCEPT ![name] = known[name] + 1]]
    ELSE [name |-> name,
          knownFuncs |-> [k \in DOMAIN known \cup {name} |->
                             IF k = name THEN FirstCounter ELSE known[k]]]

\* the sanitized candidate before the lookup (name[0] on it panics when it is empty)
Candidate(name) == ScanBytes(LowerString(name), 1, FALSE, <<>>)

\* safeFunctionName(name, knownFuncs): panic is the run-time panic of name[0]
\* (index out of range) on an empty candidate
safeFunctionName(name, known) ==
    LET out == Candidate(name) IN
    IF Len(out) = 0
    THEN [panic |-> TRUE, name |-> <<>>, knownFuncs |-> known]
    ELSE LET r == Disambiguate(DigitPrefix(out), known) IN
         [panic |-> FALSE, name |-> r.name, knownFuncs |-> r.knownFuncs]

(***************************************************************************)
(* Strings and paths (path/filepath on Unix).                              *)
(***************************************************************************)
\* strings.HasPrefix(s, prefix)
HasPrefix(s, prefix) ==
    /\ Len(prefix) <= Len(s)
    /\ \A i \in 1..Len(prefix) : s[i] = prefix[i]

\* s[n:]
SliceFrom(s, n) == SubSeq(s, n + 1, Len(s))

\* byte-wise a < b, as Go compares strings
RECURSIVE StrLess(_, _)
StrLess(a, b) ==
    IF Len(b) = 0 THEN FALSE
    ELSE IF Len(a) = 0 THEN TRUE
    ELSE IF a[1] = b[1] THEN StrLess(Tail(a), Tail(b))
    ELSE Ord(a[1]) < Ord(b[1])

\* the elements of a path between its separators, empty ones dropped
RECURSIVE SplitFrom(_, _, _, _)
SplitFrom(p, i, cur, acc) ==
    IF i > Len(p) THEN (IF cur = <<>> THEN acc ELSE Append(acc, cur))
    ELSE IF p[i] = "/" THEN SplitFrom(p, i + 1, <<>>, IF cur = <<>> THEN acc ELSE Append(acc, cur))
    ELSE SplitFrom(p, i + 1, Append(cur, p[i]), acc)
Split(p) == SplitFrom(p, 1, <<>>, <<>>)

RECURSIVE Unsplit(_)
Unsplit(segs) ==
    IF Len(segs) = 0 THEN <<>>
    ELSE IF Len(segs) = 1 THEN segs[1]
    ELSE segs[1] \o <<"/">> \o Unsplit(Tail(segs))

Dot == <<".">>
DotDot == <<".", ".">>
Slash == <<"/">>

\* filepath.IsAbs
IsAbs(p) == Len(p) > 0 /\ p[1] = "/"

\* the element loop of filepath.Clean: "." is dropped, ".." removes the
\* element before it (at the root it is dropped, at the start of a relative
\* path it is kept)
RECURSIVE CleanSegs(_, _, _)
CleanSegs(segs, rooted, out) ==
    IF Len(segs) = 0 THEN out
    ELSE LET c == Head(segs) IN
         IF c = Dot THEN CleanSegs(Tail(segs), rooted, out)
         ELSE IF c = DotDot
              THEN IF Len(out) > 0 /\ out[Len(out)] # DotDot
                   THEN CleanSegs(Tail(segs), rooted, SubSeq(out, 1, Len(out) - 1))
                   ELSE IF rooted THEN CleanSegs(Tail(segs), rooted, out)
                   ELSE CleanSegs(Tail(segs), rooted, Append(out, c))
              ELSE CleanSegs(Tail(segs), rooted, Append(out, c))

\* filepath.Clean
Clean(p) ==
    IF Len(p) = 0 THEN Dot
    ELSE LET out == Unsplit(CleanSegs(Split(p), IsAbs(p), <<>>)) IN
         IF IsAbs(p) THEN Slash \o out
         ELSE IF Len(out) = 0 THEN Dot ELSE out

\* filepath.Join(a, b): empty elements are ignored, the result is cleaned
Join(a, b) ==
    IF Len(a) = 0 /\ Len(b) = 0 THEN <<>>
    ELSE IF Len(a) = 0 THEN Clean(b)
    ELSE IF Len(b) = 0 THEN Clean(a)
    ELSE Clean(a \o Slash \o b)

\* filepath.ToSlash: the separator is already '/'
ToSlash(p) == p

\* the index of the last separator of p, 0 when it has none
LastSlash(p) ==
    LET idx == { i \in 1..Len(p) : p[i] = "/" } IN
    IF idx = {} THEN 0 ELSE CHOOSE i \in idx : \A j \in idx : j <= i

\* filepath.Dir
Dir(p) == Clean(SubSeq(p, 1, LastSlash(p)))

\* the last element of p: the Name() of the FileInfo os.Stat(p) returns
Base(p) == LET segs == Split(p) IN
           IF Len(segs) = 0 THEN (IF Len(p) = 0 THEN Dot ELSE Slash) ELSE segs[Len(segs)]

\* os.Getwd(): the working directory of every scenario
Getwd == <<"/", "w">>

\* filepath.Abs
Abs(p) == IF IsAbs(p) THEN Clean(p) ELSE Join(Getwd, p)

(***************************************************************************)
(* regexp: the ignore patterns of the model are  ^?literal$?  where a '.'  *)
(* of the literal matches any character.                                   *)
(***************************************************************************)
MatchString(re, s) ==
    \E o \in 0..(Len(s) - Len(re.lit)) :
        /\ re.start => o = 0
        /\ re.end => o + Len(re.lit) = Len(s)
        /\ \A k \in 1..Len(re.lit) : re.lit[k] = "." \/ re.lit[k] = s[o + k]

(***************************************************************************)
(* The filesystem: a function from the real (symlink-free, absolute) path  *)
(* of every node to [kind, target, readable], and the os calls on it.      *)
(***************************************************************************)
NoErr == [kind |-> "nil", path |-> <<>>]
Err(kind, path) == [kind |-> kind, path |-> path]

\* the real path of entry name of the real directory cur
Child(cur, name) == IF cur = Slash THEN Slash \o name ELSE cur \o Slash \o name

\* path resolution as the kernel does it: element by element from "/" or the
\* working directory, a symlink replaced by its target, MaxSymlinks at most
RECURSIVE Namei(_, _, _, _, _)
Namei(fs, cur, elems, nlinks, followLast) ==
    IF Len(elems) = 0 THEN [err |-> NoErr, real |-> cur]
    ELSE IF fs[cur].kind # "dir" THEN [err |-> Err("ENOTDIR", cur), real |-> <<>>]
    ELSE LET c == Head(elems)
             rest == Tail(elems)
         IN IF c = Dot THEN Namei(fs, cur, rest, nlinks, followLast)
            ELSE IF c = DotDot THEN Namei(fs, Dir(cur), rest, nlinks, followLast)
            ELSE IF Child(cur, c) \notin DOMAIN fs
                 THEN [err |-> Err("ENOENT", Child(cur, c)), real |-> <<>>]
            ELSE IF fs[Child(cur, c)].kind = "link" /\ (Len(rest) > 0 \/ followLast)
                 THEN IF nlinks >= MaxSymlinks
                      THEN [err |-> Err("ELOOP", Child(cur, c)), real |-> <<>>]
                      ELSE LET t == fs[Child(cur, c)].target IN
                           Namei(fs, IF IsAbs(t) THEN Slash ELSE cur,
                                 Split(t) \o rest, nlinks + 1, followLast)
            ELSE Namei(fs, Child(cur, c), rest, nlinks, followLast)

Resolve(fs, p, followLast) ==
    IF Len(p) = 0 THEN [err |-> Err("ENOENT", p), real |-> <<>>]
    ELSE Namei(fs, IF IsAbs(p) THEN Slash ELSE Getwd, Split(p), 0, followLast)

\* os.Stat(p): follows a final symlink
Stat(fs, p) == Resolve(fs, p, TRUE)
\* os.Lstat(p) / os.Readlink(p): do not
Lstat(fs, p) == Resolve(fs, p, FALSE)

\* one os.FileInfo of a listing: Readdir reports what Lstat would
FileInfo(fs, real) ==
    [name |-> Base(real), isDir |-> fs[real].kind = "dir", isLink |-> fs[real].kind = "link"]

Entries(fs, real) == { FileInfo(fs, q) : q \in { q \in DOMAIN fs : q # real /\ Dir(q) = real } }

\* fd.Readdir(0): the entries of the directory in an order the filesystem chooses
Readdir(fs, real) ==
    LET E == Entries(fs, real)
        n == Cardinality(E)
    IN { o \in [1..n -> E] : \A i, j \in 1..n : i # j => o[i] # o[j] }

\* byName.Less
Less(a, b) == StrLess(a.name, b.name)

\* sort.Sort(byName(list))
RECURSIVE Insert(_, _)
Insert(sorted, x) ==
    IF Len(sorted) = 0 THEN <<x>>
    ELSE IF Less(x, Head(sorted)) THEN <<x>> \o sorted
    ELSE <<Head(sorted)>> \o Insert(Tail(sorted), x)
RECURSIVE SortFrom(_, _, _)
SortFrom(list, i, sorted) ==
    IF i > Len(list) THEN sorted ELSE SortFrom(list, i + 1, Insert(sorted, list[i]))
\* (SortByNameMutant: the listing is used in the order Readdir returned it)
SortByNameMutant(list) == list
SortByName(list) == SortFrom(list, 1, <<>>)

\* the descriptor os.Open returns: the lowest one not in use
NewFd(fds) == CHOOSE n \in 1..(Cardinality(fds) + 1) : n \notin fds /\ \A m \in 1..(n - 1) : m \in fds

\* the deferred fd.Close() (CloseMutant: the descriptor is never released)
CloseMutant(fds, fd) == fds
Close(fds, fd) == fds \ {fd}

(***************************************************************************)
(* findFiles.  An invocation is a frame of the call stack:                 *)
(*   dir, prefix, recursive: its arguments (prefix after line 132-133)     *)
(*   dirpath, list: its locals;  i: the index of the next entry of list    *)
(*   fd: the descriptor it holds open (0: none);  err: the error it is     *)
(*   about to return (NoErr: none)                                         *)
(***************************************************************************)
Frame(dir, prefix, recursive, dirpath, list, fd, err) ==
    [dir |-> dir, prefix |-> prefix, recursive |-> recursive, dirpath |-> dirpath,
     list |-> list, i |-> 1, fd |-> fd, err |-> err]

\* findFiles from its entry to the start of its loop (lines 129-162): every
\* outcome [frame, visited, fds], one per order Readdir may return
FindFilesEntry(fs, dir, prefix0, recursive, visited, fds) ==
    LET dirpath == IF Len(prefix0) > 0 THEN Abs(dir) ELSE dir
        prefix == IF Len(prefix0) > 0 THEN ToSlash(Abs(prefix0)) ELSE prefix0
        fi == Stat(fs, dirpath)
    IN IF fi.err # NoErr
       THEN { [frame |-> Frame(dir, prefix, recursive, dirpath, <<>>, 0, fi.err),
               visited |-> visited, fds |-> fds] }
       ELSE IF fs[fi.real].kind # "dir"
       THEN { [frame |-> Frame(dir, prefix, recursive, Dir(dirpath),
                               << [name |-> Base(dirpath), isDir |-> FALSE, isLink |-> FALSE] >>,
                               0, NoErr),
               visited |-> visited, fds |-> fds] }
       ELSE IF ~fs[fi.real].readable
       THEN { [frame |-> Frame(dir, prefix, recursive, dirpath, <<>>, 0, Err("EACCES", dirpath)),
               visited |-> visited \cup {dirpath}, fds |-> fds] }
       ELSE { [frame |-> Frame(dir, prefix, recursive, dirpath, SortByName(order),
                               NewFd(fds), NoErr),
               visited |-> visited \cup {dirpath}, fds |-> fds \cup {NewFd(fds)}]
              : order \in Readdir(fs, fi.real) }

\* "If we have a leading slash, get rid of it."
\* (TrimLeadingSlashMutant: the slash is kept)
TrimLeadingSlashMutant(name) == name
TrimLeadingSlash(name) == IF Len(name) > 0 /\ name[1] = "/" THEN SliceFrom(name, 1) ELSE name

\* asset.Name of a regular file (lines 204-213)
AssetName(dir, prefix, slashed, fileName) ==
    TrimLeadingSlash(IF HasPrefix(slashed, prefix)
                     THEN SliceFrom(slashed, Len(prefix))
                     ELSE Join(dir, fileName))

\* the ignore loop (lines 169-175)
Ignoring(ignore, path) == \E k \in 1..Len(ignore) : MatchString(ignore[k], path)

\* the target of a symlink entry as findFiles compares it (lines 189-196)
LinkPath(fs, dirpath, assetPath) ==
    LET t == fs[Lstat(fs, assetPath).real].target IN
    IF IsAbs(t) THEN t ELSE Abs(dirpath \o Slash \o t)

(***************************************************************************)
(* State.                                                                  *)
(***************************************************************************)
VARIABLES
    fs,            \* the filesystem (never changes during a behaviour)
    cfg,           \* the Config: [Input, Prefix, Ignore]
    pc,            \* where Translate is: "locate", "done", "failed", "panic" ("names": SpecNames)
    inputIdx,      \* the index into c.Input of Translate's loop
    stack,         \* the active findFiles invocations, innermost last
    toc,           \* []Asset
    knownFuncs,    \* map[string]int of Translate, handed to every safeFunctionName call
    visitedPaths,  \* map[string]bool of Translate, as the set of its keys
    fdTable,       \* the directory descriptors the process holds open
    retErr,        \* the error Translate returned
    firstErr,      \* history: the first error any findFiles invocation raised, and len(toc) then
    run,           \* history: the number of the Translate call under way (1 or 2)
    prev,          \* history: how the first Translate call ended
    callCount,     \* history: per sanitized candidate, the calls made with it so far
    returned,      \* history: the identifiers safeFunctionName has returned so far
    last           \* history: the last safeFunctionName call (SpecNames)

walkVars == <<fs, cfg, inputIdx, stack, toc, visitedPaths, fdTable, retErr, firstErr, run, prev>>
nameVars == <<callCount, returned, last>>
vars == <<fs, cfg, pc, inputIdx, stack, toc, knownFuncs, visitedPaths, fdTable, retErr,
          firstErr, run, prev, callCount, returned, last>>

EmptyMap == [k \in {} |-> 0]
NoCall == [made |-> FALSE]
NoPrev == [pc |-> "none"]
NoFirstErr == [raised |-> FALSE]
NoFs == [p \in {Slash} |-> [kind |-> "dir", target |-> <<>>, readable |-> TRUE]]
NoCfg == [Input |-> <<>>, Prefix |-> <<>>, Ignore |-> <<>>]

\* the state Translate starts from (lines 23, 31, 32)
TranslateStart ==
    /\ pc = "locate"
    /\ inputIdx = 1
    /\ stack = <<>>
    /\ toc = <<>>
    /\ knownFuncs = EmptyMap
    /\ visitedPaths = {}
    /\ fdTable = {}
    /\ retErr = NoErr
    /\ firstErr = NoFirstErr

(***************************************************************************)
(* SpecNames: any sequence of at most MaxCalls calls of safeFunctionName   *)
(* on one knownFuncs map, with names of at most MaxNameLen characters.     *)
(***************************************************************************)
NameAlphabet == {"A", "2", "-"}

RECURSIVE StringsOfLen(_, _)
StringsOfLen(alphabet, n) ==
    IF n = 0 THEN {<<>>}
    ELSE { Append(s, c) : s \in StringsOfLen(alphabet, n - 1), c \in alphabet }

Names == UNION { StringsOfLen(NameAlphabet, n) : n \in 0..MaxNameLen }

Total(f) == LET RECURSIVE Sum(_)
                Sum(S) == IF S = {} THEN 0
                          ELSE LET k == CHOOSE x \in S : TRUE IN f[k] + Sum(S \ {k})
            IN Sum(DOMAIN f)

InitNames ==
    /\ knownFuncs = EmptyMap
    /\ callCount = EmptyMap
    /\ returned = {}
    /\ last = NoCall
    /\ pc = "names"
    /\ fs = NoFs
    /\ cfg = NoCfg
    /\ inputIdx = 1
    /\ stack = <<>>
    /\ toc = <<>>
    /\ visitedPaths = {}
    /\ fdTable = {}
    /\ retErr = NoErr
    /\ firstErr = NoFirstErr
    /\ run = 1
    /\ prev = NoPrev

\* one call safeFunctionName(name, knownFuncs)
CallSafeFunctionName(name) ==
    /\ pc = "names"
    /\ Total(callCount) < MaxCalls
    /\ UNCHANGED walkVars
    /\ \E r \in {safeFunctionName(name, knownFuncs)} :
       \E cand \in {IF r.panic THEN <<>> ELSE DigitPrefix(Candidate(name))} :
          IF r.panic
          THEN /\ pc' = "panic"
               /\ last' = [made |-> TRUE, name |-> name, panic |-> TRUE]
               /\ UNCHANGED <<knownFuncs, callCount, returned>>
          ELSE /\ knownFuncs' = r.knownFuncs
               /\ callCount' = [k \in DOMAIN callCount \cup {cand} |->
                                  IF k = cand
                                  THEN (IF k \in DOMAIN callCount THEN callCount[k] ELSE 0) + 1
                                  ELSE callCount[k]]
               /\ returned' = returned \cup {r.name}
               /\ last' = [made |-> TRUE, name |-> name, panic |-> FALSE, cand |-> cand,
                           ret |-> r.name, fresh |-> r.name \notin returned]
               /\ pc' = pc

NextNames == \E name \in Names : CallSafeFunctionName(name)

SpecNames == InitNames /\ [][NextNames]_vars

(***************************************************************************)
(* Spec: Translate's discovery loop over a filesystem and a configuration  *)
(* drawn from the scenarios below, run twice over the same filesystem.     *)
(* The working directory is /w and every tree lives in /w/r.               *)
(***************************************************************************)
P(names) == Slash \o Unsplit(names)
nW == <<"w">>
nR == <<"r">>
nA == <<"a">>
nB == <<"b">>
nC == <<"c">>
nS == <<"s">>
nU == <<"u">>
nL == <<"l">>
nK == <<"k">>
nD == <<"d">>
nN == <<"n">>
nZ == <<"z">>
nB2 == <<"b", "2">>
nADotB == <<"a", ".", "b">>
nDash == <<"-">>

DirNode(names) == [path |-> P(names), kind |-> "dir", target |-> <<>>, readable |-> TRUE]
LockedDirNode(names) == [path |-> P(names), kind |-> "dir", target |-> <<>>, readable |-> FALSE]
FileNode(names) == [path |-> P(names), kind |-> "file", target |-> <<>>, readable |-> TRUE]
LinkNode(names, target) == [path |-> P(names), kind |-> "link", target |-> target, readable |-> TRUE]

MkFs(nodes) ==
    LET all == nodes \cup {[path |-> Slash, kind |-> "dir", target |-> <<>>, readable |-> TRUE],
                           DirNode(<<nW>>), DirNode(<<nW, nR>>)}
    IN [p \in { n.path : n \in all } |->
           LET n == CHOOSE n \in all : n.path = p IN
           [kind |-> n.kind, target |-> n.target, readable |-> n.readable]]

\* r/{a, b, s/c}
TreePlain == MkFs({FileNode(<<nW, nR, nB>>), FileNode(<<nW, nR, nA>>),
                   DirNode(<<nW, nR, nS>>), FileNode(<<nW, nR, nS, nC>>)})
\* r/{a, s/u -> ..}: a symlink to an ancestor, relative target
TreeCycleRel == MkFs({FileNode(<<nW, nR, nA>>), DirNode(<<nW, nR, nS>>),
                      LinkNode(<<nW, nR, nS, nU>>, DotDot)})
\* r/{a, s/u -> /w/r}: a symlink to an ancestor, absolute target
TreeCycleAbs == MkFs({FileNode(<<nW, nR, nA>>), DirNode(<<nW, nR, nS>>),
                      LinkNode(<<nW, nR, nS, nU>>, P(<<nW, nR>>))})
\* r/{a, d -> m (dangling), n/ (unreadable), z}
TreeErr == MkFs({FileNode(<<nW, nR, nA>>), LinkNode(<<nW, nR, nD>>, <<"m">>),
                 LockedDirNode(<<nW, nR, nN>>), FileNode(<<nW, nR, nZ>>)})
\* r/{-, a/b, a/b2, a.b}
TreeNames == MkFs({FileNode(<<nW, nR, nDash>>), DirNode(<<nW, nR, nA>>),
                   FileNode(<<nW, nR, nA, nB>>), FileNode(<<nW, nR, nA, nB2>>),
                   FileNode(<<nW, nR, nADotB>>)})
\* r/{a, k -> a, l -> s, s/c}: symlinks to a file and to a sibling directory
TreeLink == MkFs({FileNode(<<nW, nR, nA>>), LinkNode(<<nW, nR, nK>>, nA),
                  LinkNode(<<nW, nR, nL>>, nS), DirNode(<<nW, nR, nS>>),
                  FileNode(<<nW, nR, nS, nC>>)})

Trees == {TreePlain, TreeCycleRel, TreeCycleAbs, TreeErr, TreeNames, TreeLink}

InputConfig(path, recursive) == [Path |-> path, Recursive |-> recursive]
Inputs == { <<InputConfig(path, recursive)>> :
                path \in {nR, P(<<nW, nR>>)}, recursive \in BOOLEAN }
          \cup { <<InputConfig(Unsplit(<<nR, nS>>), TRUE), InputConfig(nR, TRUE)>>,
                 <<InputConfig(Unsplit(<<nR, nA>>), FALSE)>> }

Prefixes == { <<>>, nR, P(<<nW, nR, nA>>), <<"x">> }

Pattern(start, lit, end) == [start |-> start, lit |-> lit, end |-> end]
\* none,  ^/w/r/s  and  a$
Ignores == { <<>>, <<Pattern(TRUE, P(<<nW, nR, nS>>), FALSE)>>, <<Pattern(FALSE, nA, TRUE)>> }

Init ==
    /\ fs \in Trees
    /\ cfg \in [Input : Inputs, Prefix : Prefixes, Ignore : Ignores]
    /\ TranslateStart
    /\ run = 1
    /\ prev = NoPrev
    /\ callCount = EmptyMap
    /\ returned = {}
    /\ last = NoCall

Top == stack[Len(stack)]
\* the invocation on top of the stack is at the head of an iteration of its loop
InLoop == pc = "locate" /\ Len(stack) > 0 /\ Top.err = NoErr /\ Top.i <= Len(Top.list)
File == Top.list[Top.i]
\* asset.Path and asset.Name as set at lines 166-167
AssetPath == Join(Top.dirpath, File.name)
Regular == InLoop /\ ~Ignoring(cfg.Ignore, AssetPath) /\ ~File.isDir /\ ~File.isLink
\* `continue`
Advance == [stack EXCEPT ![Len(stack)].i = @ + 1]
Raise(err) == IF err = NoErr \/ firstErr.raised THEN firstErr
              ELSE [raised |-> TRUE, err |-> err, tocLen |-> Len(toc)]

\* Translate lines 34-35: findFiles is called for the next input
TranslateCall ==
    /\ pc = "locate" /\ stack = <<>> /\ inputIdx <= Len(cfg.Input)
    /\ \E e \in FindFilesEntry(fs, cfg.Input[inputIdx].Path, cfg.Prefix,
                               cfg.Input[inputIdx].Recursive, visitedPaths, fdTable) :
          /\ stack' = <<e.frame>>
          /\ visitedPaths' = e.visited
          /\ fdTable' = e.fds
          /\ firstErr' = Raise(e.frame.err)
    /\ UNCHANGED <<fs, cfg, pc, inputIdx, toc, knownFuncs, retErr, run, prev, nameVars>>

\* lines 169-178: the entry matches an ignore pattern
SkipIgnored ==
    /\ InLoop /\ Ignoring(cfg.Ignore, AssetPath)
    /\ stack' = Advance
    /\ UNCHANGED <<fs, cfg, pc, inputIdx, toc, knownFuncs, visitedPaths, fdTable, retErr,
                   firstErr, run, prev, nameVars>>

\* lines 180-186 with recursive = false
SkipDirectory ==
    /\ InLoop /\ ~Ignoring(cfg.Ignore, AssetPath) /\ File.isDir /\ ~Top.recursive
    /\ stack' = Advance
    /\ UNCHANGED <<fs, cfg, pc, inputIdx, toc, knownFuncs, visitedPaths, fdTable, retErr,
                   firstErr, run, prev, nameVars>>

\* lines 180-186 with recursive = true: the call of line 184
RecurseDirectory ==
    /\ InLoop /\ ~Ignoring(cfg.Ignore, AssetPath) /\ File.isDir /\ Top.recursive
    /\ \E e \in FindFilesEntry(fs, Join(Top.dir, File.name), Top.prefix, Top.recursive,
                               visitedPaths \cup {AssetPath}, fdTable) :
          /\ stack' = Append(Advance, e.frame)
          /\ visitedPaths' = e.visited
          /\ fdTable' = e.fds
          /\ firstErr' = Raise(e.frame.err)
    /\ UNCHANGED <<fs, cfg, pc, inputIdx, toc, knownFuncs, retErr, run, prev, nameVars>>

\* lines 187-201, target not visited: the call of line 199
FollowSymlink ==
    /\ InLoop /\ ~Ignoring(cfg.Ignore, AssetPath) /\ ~File.isDir /\ File.isLink
    /\ LinkPath(fs, Top.dirpath, AssetPath) \notin visitedPaths
    /\ \E e \in FindFilesEntry(fs, AssetPath, Top.prefix, Top.recursive,
                               visitedPaths \cup {LinkPath(fs, Top.dirpath, AssetPath)}, fdTable) :
          /\ stack' = Append(Advance, e.frame)
          /\ visitedPaths' = e.visited
          /\ fdTable' = e.fds
          /\ firstErr' = Raise(e.frame.err)
    /\ UNCHANGED <<fs, cfg, pc, inputIdx, toc, knownFuncs, retErr, run, prev, nameVars>>

\* lines 187-201, target already visited
SkipVisitedSymlink ==
    /\ InLoop /\ ~Ignoring(cfg.Ignore, AssetPath) /\ ~File.isDir /\ File.isLink
    /\ LinkPath(fs, Top.dirpath, AssetPath) \in visitedPaths
    /\ stack' = Advance
    /\ UNCHANGED <<fs, cfg, pc, inputIdx, toc, knownFuncs, visitedPaths, fdTable, retErr,
                   firstErr, run, prev, nameVars>>

\* lines 204-218: the name of a regular file reduces to the empty string
InvalidFile ==
    /\ Regular
    /\ Len(AssetName(Top.dir, Top.prefix, ToSlash(AssetPath), File.name)) = 0
    /\ stack' = [stack EXCEPT ![Len(stack)].err = Err("InvalidFile", AssetPath)]
    /\ firstErr' = Raise(Err("InvalidFile", AssetPath))
    /\ UNCHANGED <<fs, cfg, pc, inputIdx, toc, knownFuncs, visitedPaths, fdTable, retErr,
                   run, prev, nameVars>>

\* lines 204-225: a regular file is appended to the table of contents
AppendAsset ==
    /\ Regular
    /\ \E name \in {AssetName(Top.dir, Top.prefix, ToSlash(AssetPath), File.name)} :
       \E r \in {IF Len(name) = 0 THEN [panic |-> TRUE] ELSE safeFunctionName(name, knownFuncs)} :
          /\ ~r.panic
          /\ toc' = Append(toc, [Path |-> Abs(AssetPath), Name |-> name, Func |-> r.name])
          /\ knownFuncs' = r.knownFuncs
    /\ stack' = Advance
    /\ UNCHANGED <<fs, cfg, pc, inputIdx, visitedPaths, fdTable, retErr, firstErr, run, prev,
                   nameVars>>

\* the descriptors left once every frame's deferred Close has run
RECURSIVE Unwind(_, _)
Unwind(frames, fds) ==
    IF Len(frames) = 0 THEN fds
    ELSE Unwind(SubSeq(frames, 1, Len(frames) - 1),
                IF frames[Len(frames)].fd # 0 THEN Close(fds, frames[Len(frames)].fd) ELSE fds)

\* line 220 / 258: safeFunctionName panics (name[0] of an empty candidate); the
\* panic unwinds every frame, running its deferred Close, and ends the process
Panic ==
    /\ Regular
    /\ \E name \in {AssetName(Top.dir, Top.prefix, ToSlash(AssetPath), File.name)} :
          /\ Len(name) > 0
          /\ safeFunctionName(name, knownFuncs).panic
    /\ pc' = "panic"
    /\ stack' = <<>>
    /\ fdTable' = Unwind(stack, fdTable)
    /\ UNCHANGED <<fs, cfg, inputIdx, toc, knownFuncs, visitedPaths, retErr, firstErr, run,
                   prev, nameVars>>

\* findFiles returns (an early `return err` or line 228): the deferred Close
\* runs; a recursive caller drops the value (lines 184, 199), Translate
\* checks it (lines 36-38)
Return ==
    /\ pc = "locate" /\ Len(stack) > 0
    /\ Top.err # NoErr \/ Top.i > Len(Top.list)
    /\ stack' = SubSeq(stack, 1, Len(stack) - 1)
    /\ fdTable' = IF Top.fd # 0 THEN Close(fdTable, Top.fd) ELSE fdTable
    /\ pc' = IF Len(stack) = 1 /\ Top.err # NoErr THEN "failed" ELSE pc
    /\ retErr' = IF Len(stack) = 1 /\ Top.err # NoErr THEN Top.err ELSE retErr
    /\ inputIdx' = IF Len(stack) = 1 /\ Top.err = NoErr THEN inputIdx + 1 ELSE inputIdx
    /\ UNCHANGED <<fs, cfg, toc, knownFuncs, visitedPaths, firstErr, run, prev, nameVars>>

\* Translate lines 41-115: every input is walked, the output is written from toc
TranslateFinish ==
    /\ pc = "locate" /\ stack = <<>> /\ inputIdx > Len(cfg.Input)
    /\ pc' = "done"
    /\ UNCHANGED <<fs, cfg, inputIdx, stack, toc, knownFuncs, visitedPaths, fdTable, retErr,
                   firstErr, run, prev, nameVars>>

Finished == pc \in {"done", "failed", "panic"}

\* Translate is called a second time with the same Config on the same filesystem
Rerun ==
    /\ Finished /\ run = 1
    /\ prev' = [pc |-> pc, toc |-> toc, retErr |-> retErr]
    /\ run' = 2
    /\ pc' = "locate"
    /\ inputIdx' = 1
    /\ stack' = <<>>
    /\ toc' = <<>>
    /\ knownFuncs' = EmptyMap
    /\ visitedPaths' = {}
    /\ fdTable' = {}
    /\ retErr' = NoErr
    /\ firstErr' = NoFirstErr
    /\ UNCHANGED <<fs, cfg, nameVars>>

Next ==
    \/ TranslateCall
    \/ SkipIgnored
    \/ SkipDirectory
    \/ RecurseDirectory
    \/ FollowSymlink
    \/ SkipVisitedSymlink
    \/ InvalidFile
    \/ AppendAsset
    \/ Panic
    \/ Return
    \/ TranslateFinish
    \/ Rerun

Spec == Init /\ [][Next]_vars

(***************************************************************************)
(* Claims about safeFunctionName, checked under SpecNames.                 *)
(***************************************************************************)
IsIdentifier(s) ==
    /\ Len(s) > 0
    /\ IsLetter(s[1]) \/ s[1] = "_"
    /\ \A i \in 1..Len(s) : ~regFuncName(s[i])

\* C1 (as claimed): no call returns an identifier that an earlier call on the
\* same map returned, whatever the sequence of names.
C1_FuncsPairwiseDistinct ==
    (last.made /\ ~last.panic) => last.fresh

\* C2 (as claimed): for every non-empty name, safeFunctionName returns a
\* non-empty identifier that starts with a letter or '_' and holds only
\* characters of [A-Za-z0-9_].
C2_ValidIdentifier ==
    (last.made /\ Len(last.name) > 0) => (~last.panic /\ IsIdentifier(last.ret))

\* the stored counters never decrease and a call changes only its own base's
CountersMonotone ==
    \A k \in DOMAIN knownFuncs :
        /\ k \in DOMAIN knownFuncs'
        /\ knownFuncs'[k] >= knownFuncs[k]
        /\ (last'.made /\ ~last'.panic /\ k # last'.cand) => knownFuncs'[k] = knownFuncs[k]

\* the k-th call with a candidate returns it bare (k = 1) or followed by the
\* decimal k (k >= 2), and leaves the stored counter at k + 1
Sequenced ==
    /\ DOMAIN knownFuncs = DOMAIN callCount
    /\ \A c \in DOMAIN callCount : knownFuncs[c] = callCount[c] + 1
    /\ (last.made /\ ~last.panic) =>
          LET k == callCount[last.cand] IN
          /\ k >= 1
          /\ last.ret = IF k = 1 THEN last.cand ELSE last.cand \o Itoa(k)

\* C10: disambiguation sequencing: the first call with a candidate returns it
\* bare and stores 2, the k-th returns base+k and stores k+1, other bases'
\* counters are unchanged and no counter ever decreases.
C10_DisambiguationSequencing == []Sequenced /\ [][CountersMonotone]_vars

\* a second call with one base has been made while another base is registered
C10_Witness ==
    /\ last.made /\ ~last.panic
    /\ callCount[last.cand] >= 2
    /\ last.ret = last.cand \o Itoa(callCount[last.cand])
    /\ Cardinality(DOMAIN knownFuncs) >= 2

(***************************************************************************)
(* Claims about findFiles and Translate, checked under Spec.               *)
(***************************************************************************)
Assets == { toc[i] : i \in 1..Len(toc) }
Frames == { stack[i] : i \in 1..Len(stack) }

\* the real file an absolute path of the table of contents names
RealOf(path) == Stat(fs, path).real

\* every symlink of the tree points to a directory that is an ancestor of the
\* directory holding it, and there is one
AncestorLinksOnly ==
    /\ \E p \in DOMAIN fs : fs[p].kind = "link"
    /\ \A p \in DOMAIN fs :
          fs[p].kind = "link" =>
             /\ Stat(fs, p).err = NoErr
             /\ fs[Stat(fs, p).real].kind = "dir"
             /\ HasPrefix(Dir(p), Stat(fs, p).real)

\* the number of path elements of the deepest node below the working directory
TreeDepth ==
    LET depths == { Len(Split(p)) - Len(Split(Getwd)) : p \in DOMAIN fs } IN
    CHOOSE d \in depths : \A e \in depths : e <= d

\* C3 (as claimed): in a tree with a symlink to an ancestor directory the
\* symlink is not followed back into the ancestor: the recursion is no deeper
\* than the real tree and no regular file is appended more than once.
C3_CycleSafety ==
    AncestorLinksOnly =>
        /\ Len(stack) <= TreeDepth
        /\ \A i, j \in 1..Len(toc) : i # j => RealOf(toc[i].Path) # RealOf(toc[j].Path)

\* the directories above an absolute path
Ancestors(path) == { P(SubSeq(Split(path), 1, n)) : n \in 1..(Len(Split(path)) - 1) }

\* C4 (as claimed): the catalog holds no asset whose absolute path matches an
\* ignore pattern, and none below a directory whose absolute path matches one.
C4_IgnoreCorrectness ==
    \A a \in Assets :
        /\ ~Ignoring(cfg.Ignore, a.Path)
        /\ \A d \in Ancestors(a.Path) : ~Ignoring(cfg.Ignore, d)

\* C5 (as claimed): the first error raised by any findFiles invocation aborts
\* the run: nothing is appended after it, Translate returns that error and
\* never goes on to produce its output.
C5_FailFast ==
    firstErr.raised =>
        /\ Len(toc) = firstErr.tocLen
        /\ pc # "done"
        /\ pc = "failed" => retErr = firstErr.err

\* one non-recursive input that is a directory
NonRecursiveDirRoot ==
    /\ Len(cfg.Input) = 1
    /\ ~cfg.Input[1].Recursive
    /\ Stat(fs, cfg.Input[1].Path).err = NoErr
    /\ fs[Stat(fs, cfg.Input[1].Path).real].kind = "dir"

\* C6 (as claimed): with recursive = false on a directory root, only the
\* root's own immediate file entries are appended: no asset lies below the
\* root's level and no file inside a subdirectory of the root is added.
C6_NonRecursiveOnlyImmediate ==
    NonRecursiveDirRoot =>
        \A a \in Assets :
            /\ Dir(a.Path) = Abs(cfg.Input[1].Path)
            /\ Dir(RealOf(a.Path)) = Stat(fs, cfg.Input[1].Path).real

\* every listing a findFiles invocation iterates over is in ascending order of name
SortedLists ==
    \A f \in Frames : \A i, j \in 1..Len(f.list) : i < j => StrLess(f.list[i].name, f.list[j].name)

\* a second run over the unchanged tree ends as the first did, with the same catalog
Repeatable ==
    (run = 2 /\ Finished) => (toc = prev.toc /\ pc = prev.pc /\ retErr = prev.retErr)

\* within a run the catalog only grows at its end, input after input
AppendOnly ==
    run' = run => /\ Len(toc') >= Len(toc)
                  /\ SubSeq(toc', 1, Len(toc)) = toc
                  /\ inputIdx' >= inputIdx

\* C7: deterministic order: listings are processed in ascending order of entry
\* name whatever order Readdir returned, the catalog is extended root after
\* root in the order given, and two runs over the same tree and configuration
\* produce the same ordered catalog.
C7_DeterministicOrder == [](SortedLists /\ Repeatable) /\ [][AppendOnly]_vars

\* a second run over two inputs has ended with a catalog of several assets
C7_Witness ==
    run = 2 /\ pc = "done" /\ Len(cfg.Input) = 2 /\ Len(toc) >= 3 /\ toc = prev.toc

\* C8: every asset of the catalog has a non-empty Name that does not begin
\* with '/'; a file whose name reduces to the empty string is not appended: the
\* findFiles invocation returns an "Invalid file" error naming its path.
C8_NameInvariant ==
    /\ \A a \in Assets : Len(a.Name) > 0 /\ a.Name[1] # "/"
    /\ \A f \in Frames :
          f.err.kind = "InvalidFile" =>
             /\ f.err.path = Join(f.dirpath, f.list[f.i].name)
             /\ \A a \in Assets : a.Path # Abs(f.err.path)

\* an "Invalid file" error is being returned while the catalog holds an asset
\* named by the fallback branch (its path does not start with the prefix)
C8_Witness ==
    /\ \E f \in Frames : f.err.kind = "InvalidFile"
    /\ \E a \in Assets : ~HasPrefix(a.Path, Abs(cfg.Prefix)) /\ Len(a.Name) > 0

\* C9 (as claimed): a directory is closed before findFiles recurses into its
\* children, so at most one directory handle is open at any point of a run.
C9_AtMostOneHandle ==
    /\ Cardinality(fdTable) <= 1
    /\ \A i \in 1..(Len(stack) - 1) : stack[i].fd \notin fdTable

\* C9 (amended): a directory opened by findFiles stays open until that
\* invocation returns: the open handles are exactly those of the active
\* invocations that opened a directory (one per level of recursion), and each
\* is released when its invocation returns, on every exit path.
C9_HandlesHeldUntilReturn ==
    /\ fdTable = { f.fd : f \in { g \in Frames : g.fd # 0 } }
    /\ \A i, j \in 1..Len(stack) : (i # j /\ stack[i].fd # 0) => stack[i].fd # stack[j].fd
    /\ \A f \in Frames :
          (f.fd # 0) <=> /\ f.err.kind \in {"nil", "InvalidFile"}
                         /\ f.dirpath \in visitedPaths
                         /\ fs[Stat(fs, f.dirpath).real].kind = "dir"
                         /\ f.dirpath = (IF Len(f.prefix) > 0 THEN Abs(f.dir) ELSE f.dir)
    /\ Len(stack) = 0 => fdTable = {}

\* findFiles has recursed into a child while its own directory is still open
C9_Witness ==
    Len(stack) >= 2 /\ stack[1].fd # 0 /\ stack[2].fd # 0 /\ Cardinality(fdTable) = 2

====
